---- MODULE Spec2Model ----
(***************************************************************************)
(* Model of django-spillway's map building (spillway/carto.py) and of its  *)
(* generic views (spillway/generics.py).                                   *)
(*                                                                         *)
(* carto.py: a Map wraps a mapnik map; Map.layer adds one layer per call   *)
(* and resolves its style, build_map builds a map for one tile request and *)
(* colorizes raster styles.                                                *)
(* generics.py: BaseRasterView.finalize_response swaps the buffered        *)
(* response for a streaming one when a GDAL renderer was negotiated.       *)
(***************************************************************************)
EXTENDS Integers, Sequences, FiniteSets, TLC

VARIABLES m, ret, resp

vars == <<m, ret, resp>>

(***************************************************************************)
(* Bounds of the model.                                                    *)
(***************************************************************************)
MaxLayers == 2
MaxTemplateStyles == 1
NumColors == 3
MaxRows == 3
MaxPageSize == 2

(***************************************************************************)
(* Values.  Python's None is the string "None" for names, the empty tuple  *)
(* for limits and a record with none = TRUE for a bounding box.            *)
(***************************************************************************)
None == "None"

StyleNames == {"polygon", "Spectral_r", "custom"}

Min(a, b) == IF a < b THEN a ELSE b

\* mapnik.Map(256, 256)
MapWidth == 256
MapHeight == 256
\* m.buffer_size = 128
MapBufferSize == 128
\* m.srs = '+init=epsg:3857'
MapSrs == "+init=epsg:3857"

EmptyStyles == [n \in {} |-> 0]

(***************************************************************************)
(* mapnik objects.  A style is a list of rules, a rule a list of           *)
(* symbolizers; a raster symbolizer carries a colorizer with its stops, a  *)
(* polygon symbolizer has no colorizer attribute.                          *)
(***************************************************************************)
\* mapnik.Color(color): the colour object built from a colormap entry
Color(c) == [rgb |-> c]

\* RasterLayer.symbolizer: RasterSymbolizer with a linear colorizer, no stop
RasterLayer_symbolizer ==
    [type |-> "RasterSymbolizer", colorizer |-> TRUE,
     mode |-> "COLORIZER_LINEAR", stops |-> <<>>]

\* VectorLayer.symbolizer
VectorLayer_symbolizer ==
    [type |-> "PolygonSymbolizer", colorizer |-> FALSE,
     mode |-> None, stops |-> <<>>]

\* Layer.symbolizer dispatches on the layer's class
Layer_symbolizer(layer) ==
    IF layer.cls = "RasterLayer" THEN RasterLayer_symbolizer
                                 ELSE VectorLayer_symbolizer

\* A plausible slip: every default style gets the polygon symbolizer.
Layer_style_polygon_only(layer) ==
    [rules |-> << [symbols |-> << VectorLayer_symbolizer >>] >>]

\* Layer.style: a style with one rule holding the layer's symbolizer
Layer_style(layer) ==
    [rules |-> << [symbols |-> << Layer_symbolizer(layer) >>] >>]

\* A style without any rule, as a template may define it
EmptyStyle == [rules |-> <<>>]

(***************************************************************************)
(* The map-style template file (map.xml in the default storage).  It is    *)
(* either unloadable (mapnik.load_map raises RuntimeError) or it defines   *)
(* a map srs, a buffer size, some named styles and some layers.            *)
(***************************************************************************)
TemplateStyleShapes ==
    { [rules |-> << [symbols |-> << RasterLayer_symbolizer >>] >>],
      [rules |-> << [symbols |-> << VectorLayer_symbolizer >>] >>],
      EmptyStyle }

TemplateLayer ==
    [name |-> "base", cls |-> "Layer", stylename |-> None, styles |-> <<>>,
     datasource |-> [kind |-> "Shape", type |-> "Vector"]]

MissingTemplate ==
    [loadable |-> FALSE, srs |-> None, buffer_size |-> 0,
     styles |-> EmptyStyles, layers |-> <<>>]

Templates ==
    {MissingTemplate} \cup
    { [loadable |-> TRUE, srs |-> "+init=epsg:4326", buffer_size |-> 0,
       styles |-> st, layers |-> ls] :
        st \in UNION { [D -> TemplateStyleShapes] :
                        D \in { S \in SUBSET StyleNames :
                                  Cardinality(S) <= MaxTemplateStyles } },
        ls \in { <<>>, << TemplateLayer >> } }

(***************************************************************************)
(* Querysets and tile forms.                                               *)
(***************************************************************************)
\* The object handed to Map.layer: it exposes 'geojson' (a geo queryset) or
\* not (a raster object, with the value range of its pixels).
Querysets ==
    { [name |-> "location", geojson |-> TRUE, engine |-> "spatialite",
       minimum |-> 0, maximum |-> 0],
      [name |-> "location", geojson |-> TRUE, engine |-> "postgis",
       minimum |-> 0, maximum |-> 0],
      [name |-> "rasterstore", geojson |-> FALSE, engine |-> "postgis",
       minimum |-> 1, maximum |-> 9] }

NoBbox == [none |-> TRUE, area |-> 0, srs |-> None, extent |-> 0]

Bboxes ==
    { NoBbox,
      [none |-> FALSE, area |-> 0, srs |-> "+init=epsg:4326", extent |-> 1],
      [none |-> FALSE, area |-> 4, srs |-> "+init=epsg:4326", extent |-> 2] }

Limits == { <<>>, <<0, 4>> }

RequestedStyles == {None, ""} \cup StyleNames

\* A tile form: whether it validates, and the values its fields clean to
TileForms ==
    [valid : BOOLEAN, style : RequestedStyles, bbox : Bboxes, limits : Limits]

\* A plausible slip: the form's values are read without asking is_valid().
cleaned_data_unchecked(tileform) ==
    [style |-> tileform.style, bbox |-> tileform.bbox,
     limits |-> tileform.limits]

\* data = tileform.cleaned_data if tileform.is_valid() else {}, read by
\* data.get(...): an invalid form yields None for every key
cleaned_data(tileform) ==
    IF tileform.valid
    THEN [style |-> tileform.style, bbox |-> tileform.bbox,
          limits |-> tileform.limits]
    ELSE [style |-> None, bbox |-> NoBbox, limits |-> <<>>]

(***************************************************************************)
(* spillway.colors and the raster object's linear(): code of the package   *)
(* that the map builder calls.                                             *)
(***************************************************************************)
\* colors.colormap.get(name): the colours of a named colour map, None (the
\* empty tuple here) for a name that is no colour map
colormap_get(name) ==
    IF name = "Spectral_r" THEN [i \in 1..NumColors |-> 10 + i]
    ELSE IF name = "custom" THEN [i \in 1..(NumColors + 1) |-> 20 + i]
    ELSE <<>>

\* queryset.linear(limits, k): k evenly spaced class breaks from the lower
\* to the upper limit; without limits, over the raster's own value range
linear(queryset, limits, k) ==
    LET start == IF limits = <<>> THEN queryset.minimum ELSE limits[1]
        stop == IF limits = <<>> THEN queryset.maximum ELSE limits[2]
    IN [i \in 1..k |->
          IF k = 1 THEN start
                   ELSE start + ((i - 1) * (stop - start)) \div (k - 1)]

(***************************************************************************)
(* carto.py                                                                *)
(***************************************************************************)
\* zip(bins, mcolors) with each colour wrapped in mapnik.Color
ColorStops(bins, mcolors) ==
    [i \in 1..Min(Len(bins), Len(mcolors)) |-> <<bins[i], Color(mcolors[i])>>]

\* The lookup dict(m.map.styles).get(name): the style or None
styles_get(styles, name) ==
    IF name \in DOMAIN styles
    THEN [found |-> TRUE, style |-> styles[name]]
    ELSE [found |-> FALSE, style |-> EmptyStyle]

\* add_colorizer_stops(style, bins, mcolors): adds one stop per (value,
\* colour) pair to the colorizer of the first symbolizer of the first rule.
\* The result tells the exception raised, if any, and the style afterwards.
add_colorizer_stops(got, bins, mcolors) ==
    LET style == got.style
        stops == ColorStops(bins, mcolors)
    IN IF ~got.found
       THEN [exc |-> "AttributeError", style |-> style]
       ELSE IF Len(style.rules) = 0 \/ Len(style.rules[1].symbols) = 0
       THEN [exc |-> "IndexError", style |-> style]
       ELSE IF Len(stops) > 0 /\ ~style.rules[1].symbols[1].colorizer
       THEN [exc |-> "AttributeError", style |-> style]
       ELSE [exc |-> None,
             style |-> [style EXCEPT !.rules[1].symbols[1].stops = @ \o stops]]

\* make_dbsource(**kwargs): a SQLite source on spatialite, PostGIS otherwise
make_dbsource(queryset) ==
    IF queryset.engine = "spatialite"
    THEN [kind |-> "SQLite", type |-> "Vector"]
    ELSE [kind |-> "PostGIS", type |-> "Vector"]

\* Layer.__init__ as inherited by VectorLayer
VectorLayer(queryset) ==
    [name |-> queryset.name, cls |-> "VectorLayer", stylename |-> "polygon",
     styles |-> <<>>, datasource |-> make_dbsource(queryset)]

\* RasterLayer.__init__
RasterLayer(obj) ==
    [name |-> obj.name, cls |-> "RasterLayer", stylename |-> "Spectral_r",
     styles |-> <<>>, datasource |-> [kind |-> "Gdal", type |-> "Raster"]]

\* A plausible slip: the dispatch never reaches the raster class.
LayerClassAlwaysVector(queryset) == VectorLayer(queryset)

\* cls = VectorLayer if hasattr(queryset, 'geojson') else RasterLayer
LayerClass(queryset) ==
    IF queryset.geojson THEN VectorLayer(queryset) ELSE RasterLayer(queryset)

\* mapnik's Map.append_style(name, style): registers the style unless the
\* name is taken already
append_style(styles, name, style) ==
    IF name \in DOMAIN styles THEN styles ELSE (name :> style) @@ styles

\* The map before the template is loaded: mapnik.Map(256, 256)
NewMapnikMap ==
    [width |-> MapWidth, height |-> MapHeight, buffer_size |-> 0,
     srs |-> "+proj=longlat", styles |-> EmptyStyles, layers |-> <<>>,
     extent |-> [zoomed |-> FALSE, srs |-> None, box |-> 0]]

\* mapnik.load_map(m, mapfile): the template's settings, styles and layers,
\* or RuntimeError with the map left as it was
load_map(map, tpl) ==
    IF tpl.loadable
    THEN [exc |-> None,
          map |-> [map EXCEPT !.srs = tpl.srs,
                              !.buffer_size = tpl.buffer_size,
                              !.styles = tpl.styles,
                              !.layers = tpl.layers]]
    ELSE [exc |-> "RuntimeError", map |-> map]

\* A plausible slip: the settings are made inside the try block, so a
\* failed load skips them.
Map_init_settings_in_try(tpl) ==
    LET loaded == load_map(NewMapnikMap, tpl)
    IN IF loaded.exc = None
       THEN [loaded.map EXCEPT !.buffer_size = MapBufferSize, !.srs = MapSrs]
       ELSE loaded.map

\* Map.__init__: load the template, swallow RuntimeError, then configure
Map_init(tpl) ==
    LET loaded == load_map(NewMapnikMap, tpl)
    IN [loaded.map EXCEPT !.buffer_size = MapBufferSize, !.srs = MapSrs]

\* A plausible slip: the style of the layer is registered under its name
\* whether or not the map holds one already (replacing it), and only the
\* layer's own default name is ever registered.
Map_layer_replacing(map, queryset, stylename) ==
    LET layer == LayerClass(queryset)
        name == IF stylename \in {None, ""} THEN layer.stylename ELSE stylename
        styled == [layer EXCEPT !.styles = Append(@, name)]
    IN [map |-> [map EXCEPT
                   !.styles = (layer.stylename :> Layer_style(layer)) @@ @,
                   !.layers = Append(@, styled)],
        layer |-> styled]

\* Map.layer(queryset, stylename): returns the layer and the map afterwards
Map_layer(map, queryset, stylename) ==
    LET layer == LayerClass(queryset)
        name == IF stylename \in {None, ""} THEN layer.stylename ELSE stylename
        styled == [layer EXCEPT !.styles = Append(@, name)]
    IN [map |-> [map EXCEPT
                   !.styles = append_style(@, name, Layer_style(layer)),
                   !.layers = Append(@, styled)],
        layer |-> styled]

\* Map.zoom_bbox(bbox): a bounding box with an area is transformed to the
\* map's srs and becomes the map's extent
zoom_bbox(map, bbox) ==
    IF ~bbox.none /\ bbox.area # 0
    THEN [map EXCEPT !.extent =
            [zoomed |-> TRUE, srs |-> map.srs, box |-> bbox.extent]]
    ELSE map

\* build_map(queryset, tileform), with the template file Map() finds.
\* exc is the exception that ends the call (None: the map is returned), pre
\* the map before the raster branch, map the map when the call ends.
build_map(queryset, tileform, tpl) ==
    LET data == cleaned_data(tileform)
        added == Map_layer(Map_init(tpl), queryset, data.style)
        layer == added.layer
        zoomed == zoom_bbox(added.map, data.bbox)
        rcolors == colormap_get(layer.stylename)
        bins == linear(queryset, data.limits, Len(rcolors))
        got == styles_get(zoomed.styles, layer.stylename)
        colored == add_colorizer_stops(got, bins, rcolors)
    IN IF layer.datasource.type # "Raster"
       THEN [exc |-> None, layer |-> layer, pre |-> zoomed, map |-> zoomed]
       ELSE IF rcolors = <<>>
       THEN [exc |-> "TypeError", layer |-> layer, pre |-> zoomed,
             map |-> zoomed]
       ELSE IF colored.exc # None
       THEN [exc |-> colored.exc, layer |-> layer, pre |-> zoomed,
             map |-> zoomed]
       ELSE [exc |-> None, layer |-> layer, pre |-> zoomed,
             map |-> [zoomed EXCEPT
                        !.styles[layer.stylename] = colored.style]]

(***************************************************************************)
(* generics.py and the code it composes                                    *)
(***************************************************************************)
\* rest_framework's DEFAULT_RENDERER_CLASSES
_default_renderers == {"JSONRenderer", "BrowsableAPIRenderer"}

\* RasterDetailView.renderer_classes
RasterDetailView_renderer_classes ==
    _default_renderers \cup {"GeoTIFFRenderer", "HFARenderer"}

\* RasterListView.renderer_classes
RasterListView_renderer_classes ==
    _default_renderers \cup {"GeoTIFFZipRenderer", "HFAZipRenderer"}

\* BaseGeoView.renderer_classes
BaseGeoView_renderer_classes ==
    _default_renderers \cup {"GeoJSONRenderer", "KMLRenderer", "KMZRenderer"}

\* The renderers deriving from renderers.gdal.BaseGDALRenderer
GDALRenderers ==
    {"GeoTIFFRenderer", "HFARenderer", "GeoTIFFZipRenderer", "HFAZipRenderer"}

ZipRenderers == {"GeoTIFFZipRenderer", "HFAZipRenderer"}

\* renderer.media_type
media_type(renderer) ==
    CASE renderer = "JSONRenderer" -> "application/json"
      [] renderer = "BrowsableAPIRenderer" -> "text/html"
      [] renderer = "GeoJSONRenderer" -> "application/vnd.geo+json"
      [] renderer = "GeoTIFFRenderer" -> "image/tiff"
      [] renderer = "HFARenderer" -> "application/x-erdas-hfa"
      [] renderer \in ZipRenderers -> "application/zip"
      [] OTHER -> "application/octet-stream"

\* renderer.render(data): a raster renderer writes one file per raster of
\* the data, a zip renderer packs them into one archive; the other
\* renderers encode the data as a document
render(renderer, data) ==
    IF renderer \in ZipRenderers
    THEN [kind |-> "zip",
          entries |-> [i \in 1..Len(data) |-> [name |-> data[i].pk,
                                               file |-> renderer]]]
    ELSE IF renderer \in GDALRenderers
    THEN [kind |-> "raster",
          entries |-> [i \in 1..Len(data) |-> [name |-> data[i].pk,
                                               file |-> renderer]]]
    ELSE [kind |-> "document",
          entries |-> [i \in 1..Len(data) |-> [name |-> data[i].pk,
                                               file |-> "record"]]]

\* The rows of a raster table: each has a primary key and lies in one cell
\* of the plane
RowSeqs == UNION { [1..n -> {1, 2}] : n \in 0..MaxRows }

Rows(cells) == [i \in 1..Len(cells) |-> [pk |-> i, cell |-> cells[i]]]

RECURSIVE SelectRows(_, _)
SelectRows(rows, lookup) ==
    IF rows = <<>> THEN <<>>
    ELSE IF lookup = 0 \/ rows[1].cell = lookup
         THEN <<rows[1]>> \o SelectRows(Tail(rows), lookup)
         ELSE SelectRows(Tail(rows), lookup)

\* filters.SpatialLookupFilter: keeps the rows the lookup geometry meets; a
\* request without a spatial lookup (0) keeps them all
SpatialLookupFilter(rows, lookup) == SelectRows(rows, lookup)

NoContent == [kind |-> None, entries |-> <<>>]

\* rest_framework's Response as the handler returns it: not rendered yet
Response(data, headers) ==
    [id |-> 1, streaming |-> FALSE, accepted_renderer |-> None,
     headers |-> headers, data |-> data, content |-> NoContent]

\* APIView.finalize_response: records the negotiated renderer on the
\* response
APIView_finalize_response(renderer, response) ==
    [response EXCEPT !.accepted_renderer = renderer]

\* response.rendered_content: renders the data with the accepted renderer
\* and sets the Content-Type header of the response
rendered_content(response) ==
    [response EXCEPT
       !.content = render(response.accepted_renderer, response.data),
       !.headers = ("Content-Type" :> media_type(response.accepted_renderer))
                     @@ @]

\* django's StreamingHttpResponse(content): a new response object
StreamingHttpResponse(content) ==
    [id |-> 2, streaming |-> TRUE, accepted_renderer |-> None,
     headers |-> ("Content-Type" :> "text/html; charset=utf-8"),
     data |-> <<>>, content |-> content]

\* A plausible slip: the zipped formats are not recognised as GDAL formats.
finalize_response_not_zip(renderer, response) ==
    LET parent == APIView_finalize_response(renderer, response)
        buffered == rendered_content(parent)
    IN IF parent.accepted_renderer \in GDALRenderers \ ZipRenderers
       THEN [buffered |-> buffered,
             out |-> [StreamingHttpResponse(buffered.content)
                        EXCEPT !.headers = buffered.headers]]
       ELSE [buffered |-> parent, out |-> parent]

\* A plausible slip: the headers are not handed over.
finalize_response_no_headers(renderer, response) ==
    LET parent == APIView_finalize_response(renderer, response)
        buffered == rendered_content(parent)
    IN IF parent.accepted_renderer \in GDALRenderers
       THEN [buffered |-> buffered,
             out |-> StreamingHttpResponse(buffered.content)]
       ELSE [buffered |-> parent, out |-> parent]

\* A plausible slip: the data, not the rendered content, is streamed.
finalize_response_data(renderer, response) ==
    LET parent == APIView_finalize_response(renderer, response)
        buffered == rendered_content(parent)
    IN IF parent.accepted_renderer \in GDALRenderers
       THEN [buffered |-> buffered,
             out |-> [StreamingHttpResponse(
                        [kind |-> "data", entries |-> <<buffered.data>>])
                        EXCEPT !.headers = buffered.headers]]
       ELSE [buffered |-> parent, out |-> parent]

\* BaseRasterView.finalize_response: buffered is the parent's response when
\* the method returns, out the response it returns.  response._headers is
\* taken by reference, so it holds the Content-Type that rendering sets.
finalize_response(renderer, response) ==
    LET parent == APIView_finalize_response(renderer, response)
        buffered == rendered_content(parent)
    IN IF parent.accepted_renderer \in GDALRenderers
       THEN [buffered |-> buffered,
             out |-> [StreamingHttpResponse(buffered.content)
                        EXCEPT !.headers = buffered.headers]]
       ELSE [buffered |-> parent, out |-> parent]

\* The headers a view sets on its response before it is finalized
ViewHeaders ==
    { ("Allow" :> "GET, HEAD, OPTIONS"),
      ("Allow" :> "GET, HEAD, OPTIONS") @@ ("Vary" :> "Accept") }

\* A plausible slip: the stock pagination serializer is left in place.
DefaultPaginationSerializer == "PaginationSerializer"

\* BaseGeoView.pagination_serializer_class
pagination_serializer_class == "PaginatedFeatureSerializer"

\* The field the pagination serializer puts the page's objects in
results_field(serializer) ==
    IF serializer = "PaginatedFeatureSerializer" THEN "features" ELSE "results"

\* Number of pages of n objects by p, the first page always being there
NumPages(n, p) == IF n = 0 THEN 1 ELSE (n + p - 1) \div p

\* The page of a paginated list: the links (0: null), the count of the
\* whole queryset and the objects of the page
paginate(serializer, n, p, page, geojson) ==
    LET first == (page - 1) * p + 1
        last == Min(page * p, n)
    IN [keys |-> {"count", "next", "previous", results_field(serializer)}
                   \cup (IF geojson /\ serializer = "PaginatedFeatureSerializer"
                         THEN {"type", "crs"} ELSE {}),
        type |-> IF geojson /\ serializer = "PaginatedFeatureSerializer"
                 THEN "FeatureCollection" ELSE None,
        count |-> n,
        next |-> IF page < NumPages(n, p) THEN page + 1 ELSE 0,
        previous |-> IF page > 1 THEN page - 1 ELSE 0,
        objects |-> [i \in 1..(IF last >= first THEN last - first + 1 ELSE 0)
                       |-> first + i - 1]]

(***************************************************************************)
(* The state.  m is the Map constructed last, ret describes the last call  *)
(* of carto.py (its arguments, the map before it, what it returned or      *)
(* raised), resp the last request a view answered.                         *)
(***************************************************************************)
NoQueryset ==
    [name |-> None, geojson |-> FALSE, engine |-> None,
     minimum |-> 0, maximum |-> 0]

NoLayer ==
    [name |-> None, cls |-> None, stylename |-> None, styles |-> <<>>,
     datasource |-> [kind |-> None, type |-> None]]

NoForm == [valid |-> FALSE, style |-> None, bbox |-> NoBbox, limits |-> <<>>]

NoCall ==
    [op |-> None, exc |-> None, queryset |-> NoQueryset, stylename |-> None,
     bbox |-> NoBbox, form |-> NoForm, tpl |-> MissingTemplate,
     before |-> NewMapnikMap, layer |-> NoLayer]

NoHeaders == [n \in {} |-> 0]

NoPage ==
    [keys |-> {}, type |-> None, count |-> 0, next |-> 0, previous |-> 0,
     objects |-> <<>>]

NoRequest ==
    [op |-> None, renderer |-> None, rows |-> <<>>, lookup |-> 0,
     selected |-> <<>>, parent |-> Response(<<>>, NoHeaders),
     buffered |-> Response(<<>>, NoHeaders), out |-> Response(<<>>, NoHeaders),
     n |-> 0, p |-> 0, page |-> 0, data |-> NoPage]

\* Before a request is served no Map has been constructed
Init ==
    /\ m = NewMapnikMap
    /\ ret = NoCall
    /\ resp = NoRequest

\* Map(): the request's map, from the template file as it is found
NewMap ==
    /\ ret.op = None
    /\ \E tpl \in Templates :
         /\ m' = Map_init(tpl)
         /\ ret' = [NoCall EXCEPT !.op = "Map", !.tpl = tpl]
    /\ UNCHANGED resp

\* m.layer(queryset, stylename) on the map at hand
MapLayer ==
    /\ ret.op # None
    /\ ret.exc = None
    /\ Len(m.layers) < MaxLayers
    /\ \E queryset \in Querysets, stylename \in RequestedStyles :
         LET added == Map_layer(m, queryset, stylename)
         IN /\ m' = added.map
            /\ ret' = [NoCall EXCEPT !.op = "layer", !.queryset = queryset,
                                     !.stylename = stylename, !.before = m,
                                     !.layer = added.layer]
    /\ UNCHANGED resp

\* m.zoom_bbox(bbox) on the map at hand
ZoomBbox ==
    /\ ret.op # None
    /\ ret.exc = None
    /\ \E bbox \in Bboxes :
         /\ m' = zoom_bbox(m, bbox)
         /\ ret' = [NoCall EXCEPT !.op = "zoom_bbox", !.bbox = bbox,
                                  !.before = m]
    /\ UNCHANGED resp

\* build_map(queryset, tileform): the call constructs the request's map
BuildMap ==
    /\ ret.op = None
    /\ \E queryset \in Querysets, tileform \in TileForms, tpl \in Templates :
         LET built == build_map(queryset, tileform, tpl)
         IN /\ m' = built.map
            /\ ret' = [NoCall EXCEPT !.op = "build_map", !.exc = built.exc,
                                     !.queryset = queryset, !.form = tileform,
                                     !.tpl = tpl, !.before = built.pre,
                                     !.layer = built.layer]
    /\ UNCHANGED resp

\* GET on a RasterListView
RasterListRequest ==
    /\ \E cells \in RowSeqs, lookup \in 0..2, h \in ViewHeaders,
          renderer \in RasterListView_renderer_classes :
         LET selected == SpatialLookupFilter(Rows(cells), lookup)
             final == finalize_response(renderer, Response(selected, h))
         IN resp' = [NoRequest EXCEPT !.op = "RasterListView",
                                      !.renderer = renderer,
                                      !.rows = Rows(cells),
                                      !.lookup = lookup,
                                      !.selected = selected,
                                      !.parent = APIView_finalize_response(
                                                   renderer,
                                                   Response(selected, h)),
                                      !.buffered = final.buffered,
                                      !.out = final.out]
    /\ UNCHANGED <<m, ret>>

\* GET on a RasterDetailView for a row of the table
RasterDetailRequest ==
    /\ \E cells \in RowSeqs, h \in ViewHeaders,
          renderer \in RasterDetailView_renderer_classes :
         \E pk \in 1..Len(cells) :
           LET selected == << Rows(cells)[pk] >>
               final == finalize_response(renderer, Response(selected, h))
           IN resp' = [NoRequest EXCEPT !.op = "RasterDetailView",
                                        !.renderer = renderer,
                                        !.rows = Rows(cells),
                                        !.selected = selected,
                                        !.parent = APIView_finalize_response(
                                                     renderer,
                                                     Response(selected, h)),
                                        !.buffered = final.buffered,
                                        !.out = final.out]
    /\ UNCHANGED <<m, ret>>

\* GET of a page of a paginated GeoListView, as JSON or as GeoJSON
GeoListRequest ==
    /\ \E n \in 0..MaxRows, p \in 1..MaxPageSize, geojson \in BOOLEAN :
         \E page \in 1..NumPages(n, p) :
           resp' = [NoRequest EXCEPT
                      !.op = "GeoListView",
                      !.renderer = IF geojson THEN "GeoJSONRenderer"
                                              ELSE "JSONRenderer",
                      !.n = n, !.p = p, !.page = page,
                      !.data = paginate(pagination_serializer_class,
                                        n, p, page, geojson)]
    /\ UNCHANGED <<m, ret>>

NextCarto == NewMap \/ MapLayer \/ ZoomBbox \/ BuildMap

NextViews == RasterListRequest \/ RasterDetailRequest \/ GeoListRequest

Next == NextCarto \/ NextViews

\* The map builder alone, the views alone
SpecCarto == Init /\ [][NextCarto]_vars

SpecViews == Init /\ [][NextViews]_vars

(***************************************************************************)
(* Properties of the raster views                                          *)
(***************************************************************************)
RasterViews == {"RasterListView", "RasterDetailView"}

\* C1: a response finalized by a raster view with a binary raster (GDAL)
\* renderer accepted, the zipped formats of the list view included, is a
\* streaming response whose body is the rendered content.
C1_GdalResponseStreams ==
    (/\ resp.op \in RasterViews
     /\ resp.renderer \in {"GeoTIFFRenderer", "HFARenderer",
                           "GeoTIFFZipRenderer", "HFAZipRenderer"})
      => /\ resp.out.streaming
         /\ resp.out.id # resp.parent.id
         /\ resp.out.content = render(resp.renderer, resp.selected)

C1_Witness ==
    /\ resp.op = "RasterListView"
    /\ resp.renderer = "HFAZipRenderer"
    /\ Len(resp.selected) = 2
    /\ resp.out.streaming

\* C7: the zip archive streamed for a raster list request in a zipped
\* format holds exactly one entry per row of the filtered queryset.
C7_ZipEntryPerRow ==
    (/\ resp.op = "RasterListView"
     /\ resp.renderer \in {"GeoTIFFZipRenderer", "HFAZipRenderer"})
      => /\ resp.out.streaming
         /\ resp.out.content.kind = "zip"
         /\ Len(resp.out.content.entries) =
              Cardinality({ i \in 1..Len(resp.rows) :
                              resp.lookup = 0
                                \/ resp.rows[i].cell = resp.lookup })
         /\ \A i \in 1..Len(resp.out.content.entries) :
              resp.out.content.entries[i].name = resp.selected[i].pk

C7_Witness ==
    /\ resp.op = "RasterListView"
    /\ resp.renderer = "GeoTIFFZipRenderer"
    /\ Len(resp.rows) = 3
    /\ resp.lookup # 0
    /\ Len(resp.out.content.entries) = 2

\* C8: a page of a paginated geo list reports the count of the whole
\* queryset, holds at most P features (P on a full page) and carries the
\* previous and next keys; as GeoJSON it is a FeatureCollection with a crs.
C8_PaginatedPage ==
    resp.op = "GeoListView"
      => /\ resp.data.count = resp.n
         /\ "features" \in resp.data.keys
         /\ Len(resp.data.objects) <= resp.p
         /\ (resp.page * resp.p <= resp.n => Len(resp.data.objects) = resp.p)
         /\ {"previous", "next"} \subseteq resp.data.keys
         /\ (resp.renderer = "GeoJSONRenderer"
               => /\ resp.data.type = "FeatureCollection"
                  /\ "crs" \in resp.data.keys)

C8_Witness ==
    /\ resp.op = "GeoListView"
    /\ resp.renderer = "GeoJSONRenderer"
    /\ resp.n = 3
    /\ resp.p = 2
    /\ resp.page = 2
    /\ Len(resp.data.objects) = 1

ResolvedName == IF ret.stylename \in {None, ""} THEN ret.layer.stylename
                                                ELSE ret.stylename

\* A style whose first rule's first symbolizer has a colorizer
HasColorizer(style) ==
    /\ Len(style.rules) >= 1
    /\ Len(style.rules[1].symbols) >= 1
    /\ style.rules[1].symbols[1].colorizer

\* C3: Map.layer reuses, unchanged, the style the map holds under the
\* resolved name; otherwise it registers under that name a style of one
\* rule with one symbolizer of the layer's type.
C3_StyleResolution ==
    ret.op = "layer"
      => IF ResolvedName \in DOMAIN ret.before.styles
         THEN m.styles = ret.before.styles
         ELSE /\ DOMAIN m.styles = DOMAIN ret.before.styles \cup {ResolvedName}
              /\ \A n \in DOMAIN ret.before.styles :
                   m.styles[n] = ret.before.styles[n]
              /\ Len(m.styles[ResolvedName].rules) = 1
              /\ Len(m.styles[ResolvedName].rules[1].symbols) = 1
              /\ LET symbolizer == m.styles[ResolvedName].rules[1].symbols[1]
                 IN IF ret.queryset.geojson
                    THEN /\ symbolizer.type = "PolygonSymbolizer"
                         /\ ~symbolizer.colorizer
                    ELSE /\ symbolizer.type = "RasterSymbolizer"
                         /\ symbolizer.colorizer
                         /\ symbolizer.mode = "COLORIZER_LINEAR"
                         /\ symbolizer.stops = <<>>

C3_Witness ==
    /\ ret.op = "layer"
    /\ ret.stylename = "custom"
    /\ ~ret.queryset.geojson
    /\ "custom" \notin DOMAIN ret.before.styles
    /\ "custom" \in DOMAIN m.styles

\* C4: Map.layer constructs a VectorLayer (default style 'polygon') if and
\* only if the queryset exposes 'geojson', a RasterLayer (default style
\* 'Spectral_r') otherwise, and one layer per call.
C4_LayerTypeSelection ==
    ret.op \in {"layer", "build_map"}
      => /\ (ret.layer.cls = "VectorLayer") <=> ret.queryset.geojson
         /\ (ret.layer.cls = "RasterLayer") <=> ~ret.queryset.geojson
         /\ ret.layer.cls = "VectorLayer" => ret.layer.stylename = "polygon"
         /\ ret.layer.cls = "RasterLayer" => ret.layer.stylename = "Spectral_r"
         /\ ret.layer.datasource.type =
              (IF ret.queryset.geojson THEN "Vector" ELSE "Raster")
         /\ (ret.op = "layer"
               => m.layers = Append(ret.before.layers, ret.layer))

C4_Witness ==
    /\ ret.op = "layer"
    /\ ~ret.queryset.geojson
    /\ ret.layer.cls = "RasterLayer"
    /\ Len(m.layers) = Len(ret.before.layers) + 1

\* C9: every Map.layer call appends one layer, the style name it appends to
\* that layer names a style registered on the map, and no style registered
\* before the call is replaced or removed.
C9_MapLayerInvariant ==
    /\ \A i \in 1..Len(m.layers) :
         m.layers[i].cls # "Layer"
           => /\ Len(m.layers[i].styles) = 1
              /\ m.layers[i].styles[1] \in DOMAIN m.styles
    /\ ret.op = "layer"
         => /\ m.layers = Append(ret.before.layers, ret.layer)
            /\ ret.layer.styles = << ResolvedName >>
            /\ \A n \in DOMAIN ret.before.styles :
                 /\ n \in DOMAIN m.styles
                 /\ m.styles[n] = ret.before.styles[n]

C9_Witness ==
    /\ ret.op = "layer"
    /\ Len(m.layers) >= 2
    /\ ret.before.layers[Len(ret.before.layers)].cls # "Layer"
    /\ ResolvedName \in DOMAIN ret.before.styles
    /\ ResolvedName # ret.layer.stylename

\* C6: Map() does not fail when the template cannot be loaded: the map is
\* 256x256 with buffer size 128 and srs EPSG:3857 as after a successful
\* load, and holds no style and no layer.
C6_MissingTemplateIgnored ==
    ret.op = "Map"
      => /\ ret.exc = None
         /\ m.width = 256
         /\ m.height = 256
         /\ m.buffer_size = 128
         /\ m.srs = "+init=epsg:3857"
         /\ IF ret.tpl.loadable
            THEN m.styles = ret.tpl.styles /\ m.layers = ret.tpl.layers
            ELSE DOMAIN m.styles = {} /\ m.layers = <<>>

C6_Witness ==
    /\ ret.op = "Map"
    /\ ~ret.tpl.loadable
    /\ m.buffer_size = 128

\* C2: build_map on a raster data source computes k linear breaks from the
\* request's limits, k being the number of colours of the layer's colour
\* map, and adds one stop per break to the colorizer of the first
\* symbolizer of the first rule of the style the layer is drawn with,
\* whether or not the request names a style; on any other data source it
\* adds no stop to any style.
C2_RasterColorizing ==
    ret.op = "build_map"
      => IF ret.layer.datasource.type = "Raster"
         THEN LET drawn == ret.layer.styles[1]
                  rcolors == colormap_get(ret.layer.stylename)
                  k == Len(rcolors)
                  bins == linear(ret.queryset, cleaned_data(ret.form).limits, k)
              IN /\ ret.exc = None
                 /\ drawn \in DOMAIN m.styles
                 /\ HasColorizer(m.styles[drawn])
                 /\ HasColorizer(ret.before.styles[drawn])
                 /\ m.styles[drawn].rules[1].symbols[1].stops =
                      ret.before.styles[drawn].rules[1].symbols[1].stops
                        \o [i \in 1..k |-> <<bins[i], Color(rcolors[i])>>]
         ELSE /\ ret.exc = None
              /\ m.styles = ret.before.styles

\* C5 as stated: with an invalid tile form build_map does not fail, gives
\* the layer its default style, does not zoom and returns a map with the
\* one layer, whatever the queryset.
C5_InvalidFormNeverFails ==
    (ret.op = "build_map" /\ ~ret.form.valid)
      => /\ ret.exc = None
         /\ ret.layer.styles = << ret.layer.stylename >>
         /\ ~m.extent.zoomed
         /\ m.layers = Append(Map_init(ret.tpl).layers, ret.layer)

\* C5 amended: with an invalid tile form build_map proceeds as if every
\* parameter were absent (default style, no zoom, the one layer added); it
\* returns the map for a vector queryset, and for a raster one unless the
\* style the template registers under the default name has no colorizer on
\* the first symbolizer of its first rule, where add_colorizer_stops raises.
C5_InvalidFormAsAbsent ==
    (ret.op = "build_map" /\ ~ret.form.valid)
      => /\ ret.layer.styles = << ret.layer.stylename >>
         /\ ~m.extent.zoomed
         /\ m.layers = Append(Map_init(ret.tpl).layers, ret.layer)
         /\ ret.exc = None
              <=> \/ ret.queryset.geojson
                  \/ ret.layer.stylename \notin DOMAIN ret.tpl.styles
                  \/ HasColorizer(ret.tpl.styles[ret.layer.stylename])
         /\ (ret.exc = None /\ ~ret.queryset.geojson)
              => Len(m.styles[ret.layer.stylename].rules[1].symbols[1].stops)
                   = Len(colormap_get(ret.layer.stylename))

C5_Witness ==
    /\ ret.op = "build_map"
    /\ ~ret.form.valid
    /\ ret.form.style = "custom"
    /\ ~ret.form.bbox.none
    /\ ret.form.bbox.area # 0
    /\ ~ret.queryset.geojson
    /\ ret.exc = None
    /\ Len(m.layers) = 1

====
